---- MODULE Spec2Model ----
(***************************************************************************)
(* Model of the Aster bridge client (client-sdks/python-bridge/aster.py):  *)
(* one AsterBridge instance, its lazily created aiohttp session, and the   *)
(* coroutines (asyncio tasks) that run call_tool, list_tools,              *)
(* get_tool_schema and close on it.  A task runs atomically from one await *)
(* that really suspends to the next (single-threaded cooperative           *)
(* scheduling); the awaits that suspend are the HTTP request, the read of  *)
(* the response body, asyncio.sleep and session.close(); the request and   *)
(* the read of the body may raise.  The module level is modelled too: the  *)
(* global _bridge, inject_tools and the tool functions it generates, the   *)
(* module's own Read, Write, Glob, Grep and Bash, and the cancellation of  *)
(* a call_tool task.                                                       *)
(***************************************************************************)
EXTENDS Integers, Sequences, FiniteSets, TLC

\* ------------------------------------------------------------ bounds
NumTasks == 2          \* tasks the caller may run on the one client
MaxOps == 2            \* operations one task starts, one after the other
MaxRetriesBound == 3   \* max_retries ranges over 0..MaxRetriesBound
MaxDelay == 2          \* retry_delay is at most MaxDelay (time units)
ConcOps == 3           \* operations started in all when several tasks run
MaxInjects == 2        \* calls of inject_tools in one run

Tasks == 1..NumTasks

\* ------------------------------------------------------------ values
None == 0                       \* self._session = None
Unset == "<unset>"              \* a task that has not returned a value
PyNone == "None"                \* Python's None as a returned value
Absent == "<absent>"            \* a key a JSON object does not have

ToolNames == {"Read", "Bash"}
ArgMaps == {"{}", "{path: a.txt}"}
DefaultUrl == "http://localhost:8080"
DefaultMaxRetries == 3          \* max_retries: int = 3
DefaultRetryDelay == 1          \* retry_delay: float = 0.5, the time unit

\* The base_url arguments inject_tools is called with: None when the host
\* passes none, or a string, which may be empty.
BaseUrls == {PyNone, "", "http://bridge:9000"}

\* What the environment variable ASTER_BRIDGE_URL may hold when the client
\* is constructed: nothing (the variable is not set), or an address.
Environs == {Absent, "http://env:1"}

\* The keyword arguments a tool function is called with; a tool's own
\* parameter may be called "name" or "self".
StubArgMaps == ArgMaps \cup {"{name: x}", "{self: x}"}

\* The keys of a keyword-argument mapping.
Keys(kw) ==
    IF kw = "{path: a.txt}" THEN {"path"}
    ELSE IF kw = "{name: x}" THEN {"name"}
    ELSE IF kw = "{self: x}" THEN {"self"}
    ELSE {}

\* The arguments the module's own functions are called with. Absent: the
\* caller leaves the argument out.
Paths == {Absent, "src"}
GlobFilters == {Absent, PyNone, "", "*.py"}
Timeouts == {Absent, PyNone, "0", "30"}

\* The tool name lists inject_tools is called with.
ToolLists == { <<"Read">>, <<"Read", "Bash">> }

Range(s) == { s[i] : i \in 1..Len(s) }

\* A function that forwards to call_tool: the tool name it calls (what the
\* closure of a generated function holds), whether it is a generated one or
\* one of the module's own, and whether it drops what call_tool returns.
NoStub == [tool_name |-> "", kind |-> "", discards |-> FALSE]
NoTools == [n \in {} |-> NoStub]
NoCall == [tools |-> <<>>, base_url |-> Unset]
NoGiven == [key |-> "", kwargs |-> ""]

\* A response body: its raw text (what resp.text() gives), whether
\* resp.json() can parse it, and the keys of the parsed object.
Body(text, form, success, result, error, tools) ==
    [text |-> text, form |-> form, success |-> success,
     result |-> result, error |-> error, tools |-> tools]

NoBody == Body("", "none", Absent, Absent, Absent, Absent)

Bodies ==
    { Body("{success: true, result: r1}", "dict", "true", "r1", Absent, Absent),
      Body("{success: true, result: r2}", "dict", "true", "r2", Absent, Absent),
      Body("{success: true}", "dict", "true", Absent, Absent, Absent),
      Body("{success: false, error: e1}", "dict", "false", Absent, "e1", Absent),
      Body("{success: false}", "dict", "false", Absent, Absent, Absent),
      Body("{tools: []}", "dict", Absent, Absent, Absent, "[]"),
      Body("{tools: [Read]}", "dict", Absent, Absent, Absent, "[Read]"),
      Body("{}", "dict", Absent, Absent, Absent, Absent),
      Body("{bad", "badjson", Absent, Absent, Absent, Absent),
      Body("<html>", "notjson", Absent, Absent, Absent, Absent) }

Statuses == {200, 300, 404, 503}

\* What one HTTP request ends with: a response, or an exception raised by
\* aiohttp while sending or receiving.
Outcome(kind, status, body, detail) ==
    [kind |-> kind, status |-> status, body |-> body, detail |-> detail]

NoResp == Outcome("none", 0, NoBody, "")

\* The bodies a response of a status other than 200 comes with: a result,
\* a tool failure, or a page that is not JSON. call_tool only quotes the
\* text of those of status 400 or more, and parses the others.
ErrorBodies == { b \in Bodies : b.text \in { "{success: true, result: r1}",
                                             "{success: false, error: e1}",
                                             "<html>" } }

Responses ==
    { Outcome("response", s, b, "") :
        s \in Statuses, b \in Bodies } \ 
    { Outcome("response", s, b, "") :
        s \in { t \in Statuses : t >= 300 }, b \in Bodies \ ErrorBodies }

Exceptions ==
    { Outcome("ClientConnectorError", 0, NoBody, "Cannot connect to host"),
      Outcome("ClientError", 0, NoBody, "Server disconnected"),
      Outcome("TimeoutError", 0, NoBody, "") }

Outcomes == Responses \cup Exceptions

\* What resp.text() and resp.json() may raise while the body is received:
\* aiohttp.ClientPayloadError (a ClientError), or asyncio.TimeoutError when
\* the request's total timeout runs out during the read.
PayloadError ==
    Outcome("ClientError", 0, NoBody, "Response payload is not completed")

ReadFailures == { PayloadError, Outcome("TimeoutError", 0, NoBody, "") }

\* The response r, whose body read raised e: the exception is noted in it.
Unread(r, e) == [r EXCEPT !.detail = e.kind]

\* The body of response r was received, or its read is still to come.
BodyRead(r) == r.detail = ""

\* ------------------------------------------------------------ errors
\* An exception object: its class, the fixed part of its message and the
\* values formatted into the message.
Error(type, msg, status, text, detail, tool, url) ==
    [type |-> type, msg |-> msg, status |-> status, text |-> text,
     detail |-> detail, tool |-> tool, url |-> url]

NoError == Error("None", "", 0, "", "", "", "")

\* ToolExecutionError(tool_name, error_msg): "Tool {tool_name} failed: {error_msg}"
ToolExecutionError(tool_name, error_msg) ==
    Error("ToolExecutionError", "Tool failed", 0, "", error_msg, tool_name, "")

\* NetworkError(f"Server error (HTTP {resp.status}): {error_text}")
ServerErrorOf(r) ==
    Error("NetworkError", "Server error", r.status, r.body.text, "", "", "")

\* NetworkError(f"Client error (HTTP {resp.status}): {error_text}")
ClientErrorOf(r) ==
    Error("NetworkError", "Client error", r.status, r.body.text, "", "", "")

\* NetworkError(f"Connection error: {str(e)}. Is the bridge server running at {self.base_url}?")
ConnectionErrorOf(e, url) ==
    Error("NetworkError", "Connection error", 0, "", e.detail, "", url)

\* NetworkError(f"Network error: {str(e)}")
NetworkErrorOf(e) ==
    Error("NetworkError", "Network error", 0, "", e.detail, "", "")

\* NetworkError(f"Tool {name} timed out after 60 seconds")
TimeoutErrorOf(n) ==
    Error("NetworkError", "Tool timed out after 60 seconds", 0, "", "", n, "")

\* NetworkError(f"Failed to call tool {name} after {self.max_retries} attempts");
\* the status field carries the number formatted into the message.
ExhaustedError(n, retries) ==
    Error("NetworkError", "Failed to call tool after attempts", retries, "", "", n, "")

\* An exception call_tool has no handler for (or list_tools and
\* get_tool_schema, which have none at all): it propagates as it is.
Uncaught(e) ==
    Error(e.kind, "", 0, "", e.detail, "", "")

\* resp.json() on a body that is not JSON text / not served as JSON.
JSONDecodeError == Outcome("JSONDecodeError", 0, NoBody, "Expecting value")
ContentTypeError == Outcome("ClientError", 0, NoBody, "unexpected mimetype")

VARIABLES
    base_url, max_retries, retry_delay,   \* AsterBridge fields
    _session,                             \* AsterBridge._session: None or a session
    sessions,                             \* the ClientSession objects made so far: closed?
    transport,                            \* what the remote end may answer a request with
    callable,                             \* the (tool, arguments) calls the caller makes
    opsLeft,                              \* operations each task may still start
    pc, op, name, kwargs,                 \* per task: position, operation, its arguments
    attempt, last_error, session, resp,   \* per task: locals of the operation
    returned, raised,                     \* per task: how the operation ended
    requests, sleeps, trace,              \* per task: requests sent, sleeps, outcomes seen
    _bridge,                              \* the module's global _bridge: None or the client
    injected,                             \* the mapping the latest inject_tools returned
    inject_args,                          \* the arguments of the latest inject_tools call
    instances,                            \* clients _init_bridge has constructed
    injectsLeft,                          \* inject_tools calls the host may still make
    environ,                              \* os.environ: ASTER_BRIDGE_URL, or Absent
    stub, given, invoked                  \* per task: the tool function it runs, what the
                                          \* caller gave it, the call_tool calls it made

bridge == <<base_url, max_retries, retry_delay>>
heap == <<_session, sessions>>
module == <<_bridge, injected, inject_args, instances, injectsLeft, environ>>
stubs == <<stub, given, invoked>>
env == <<transport, callable, module, stubs>>
locals == <<op, name, kwargs, attempt, last_error, session, resp>>
result == <<returned, raised>>
observed == <<requests, sleeps, trace>>
vars == <<bridge, heap, env, opsLeft, pc, locals, result, observed>>

\* ------------------------------------------------------------ call_tool: decisions
\* if resp.status >= 500
IsServerError(status) == status >= 500

\* if resp.status >= 400 (reached only when the status is below 500)
IsClientError(status) == status >= 400

\* Faulty variant: a retry is planned after the last attempt too, so the
\* loop runs out and the code after it raises.
CanRetryAlways(a) == a < max_retries

\* if attempt < self.max_retries - 1
CanRetry(a) == a < max_retries - 1

\* Faulty variant: the same delay before every retry.
BackoffDelayFixed(a) == retry_delay

\* self.retry_delay * (2 ** attempt)
BackoffDelay(a) == retry_delay * (2 ^ a)

\* not result.get("success"): a missing key gives None, which is falsy
Succeeded(body) == body.success = "true"

\* result.get("error", "Unknown error")
ErrorMsg(body) == IF body.error = Absent THEN "Unknown error" ELSE body.error

\* Faulty variant: the whole parsed body is returned.
ResultOfBody(body) == body.text

\* result.get("result"): a missing key gives None
ResultOf(body) == IF body.result = Absent THEN PyNone ELSE body.result

\* The tag the trace keeps of one request's outcome: the class of the
\* response status, or the exception raised.
Tag(o) ==
    IF o.kind # "response" THEN o.kind
    ELSE IF o.status >= 500 THEN "5xx"
    ELSE IF o.status >= 400 THEN "4xx"
    ELSE IF o.status >= 300 THEN "3xx"
    ELSE "2xx"

\* ------------------------------------------------------------ sessions
IsOpen(s) == s # None /\ s \in 1..Len(sessions) /\ ~sessions[s]

OpenSessions == { s \in 1..Len(sessions) : ~sessions[s] }

\* Faulty variant: a new session for every acquisition.
GetSessionAlways(p) ==
    /\ sessions' = Append(sessions, FALSE)
    /\ _session' = Len(sessions) + 1
    /\ session' = [session EXCEPT ![p] = _session']

\* Faulty variant: the session is kept once made, closed or not.
GetSessionKeepClosed(p) ==
    /\ IF _session = None
       THEN /\ sessions' = Append(sessions, FALSE)
            /\ _session' = Len(sessions) + 1
       ELSE /\ UNCHANGED <<_session, sessions>>
    /\ session' = [session EXCEPT ![p] = _session']

\* Faulty variant: an attempt that follows a failed one gets a new session.
GetSessionPerRetry(p) ==
    /\ IF _session = None \/ sessions[_session] \/ trace[p] # <<>>
       THEN /\ sessions' = Append(sessions, FALSE)
            /\ _session' = Len(sessions) + 1
       ELSE /\ UNCHANGED <<_session, sessions>>
    /\ session' = [session EXCEPT ![p] = _session']

\* _get_session: no await inside, so it runs without interruption.
GetSession(p) ==
    /\ IF _session = None \/ sessions[_session]
       THEN /\ sessions' = Append(sessions, FALSE)
            /\ _session' = Len(sessions) + 1
       ELSE /\ UNCHANGED <<_session, sessions>>
    /\ session' = [session EXCEPT ![p] = _session']

\* ------------------------------------------------------------ how an operation ends
Return(p, v) ==
    /\ returned' = [returned EXCEPT ![p] = v]
    /\ pc' = [pc EXCEPT ![p] = "done"]
    /\ UNCHANGED raised

Raise(p, e) ==
    /\ raised' = [raised EXCEPT ![p] = e]
    /\ pc' = [pc EXCEPT ![p] = "done"]
    /\ UNCHANGED returned

\* A task is created for an operation: fresh locals, nothing has run yet.
Spawn(p, o, n, kw, at) ==
    /\ pc[p] \in {"idle", "done"}
    /\ opsLeft[p] > 0
    /\ opsLeft' = [opsLeft EXCEPT ![p] = @ - 1]
    /\ pc' = [pc EXCEPT ![p] = at]
    /\ op' = [op EXCEPT ![p] = o]
    /\ name' = [name EXCEPT ![p] = n]
    /\ kwargs' = [kwargs EXCEPT ![p] = kw]
    /\ attempt' = [attempt EXCEPT ![p] = 0]
    /\ last_error' = [last_error EXCEPT ![p] = NoError]
    /\ session' = [session EXCEPT ![p] = None]
    /\ resp' = [resp EXCEPT ![p] = NoResp]
    /\ returned' = [returned EXCEPT ![p] = Unset]
    /\ raised' = [raised EXCEPT ![p] = NoError]
    /\ requests' = [requests EXCEPT ![p] = 0]
    /\ sleeps' = [sleeps EXCEPT ![p] = <<>>]
    /\ trace' = [trace EXCEPT ![p] = <<>>]
    /\ UNCHANGED <<bridge, heap, env>>

\* ------------------------------------------------------------ call_tool
\* The caller starts call_tool(name, **kwargs).
CallTool(p, n, kw) ==
    /\ <<n, kw>> \in callable
    /\ Spawn(p, "call_tool", n, kw, "ct_start")

\* The head of `for attempt in range(self.max_retries)` with the next index
\* a: either the attempt starts (session, request sent), or the loop is over
\* and the code after it runs.
LoopNext(p, a, le) ==
    IF a < max_retries
    THEN /\ attempt' = [attempt EXCEPT ![p] = a]
         /\ last_error' = [last_error EXCEPT ![p] = le]
         /\ GetSession(p)
         /\ requests' = [requests EXCEPT ![p] = @ + 1]
         /\ pc' = [pc EXCEPT ![p] = "ct_post"]
         /\ UNCHANGED <<bridge, env, opsLeft, op, name, kwargs, resp, result,
                        sleeps, trace>>
    ELSE /\ Raise(p, IF le # NoError THEN le
                     ELSE ExhaustedError(name[p], max_retries))
         /\ last_error' = [last_error EXCEPT ![p] = le]
         /\ UNCHANGED <<bridge, heap, env, opsLeft, op, name, kwargs, attempt,
                        session, resp, observed>>

\* Faulty variant: only the first failure of the invocation is recorded.
RetryOrRaiseFirst(p, e) ==
    LET le == IF last_error[p] = NoError THEN e ELSE last_error[p] IN
    /\ last_error' = [last_error EXCEPT ![p] = le]
    /\ IF CanRetry(attempt[p])
       THEN /\ sleeps' = [sleeps EXCEPT ![p] = Append(@, BackoffDelay(attempt[p]))]
            /\ pc' = [pc EXCEPT ![p] = "ct_sleep"]
            /\ UNCHANGED result
       ELSE /\ Raise(p, le)
            /\ UNCHANGED sleeps

\* Faulty variant: the failure record is kept on the client, one for all
\* invocations, instead of in a local of the invocation.
RetryOrRaiseShared(p, e) ==
    /\ last_error' = [q \in Tasks |-> e]
    /\ IF CanRetry(attempt[p])
       THEN /\ sleeps' = [sleeps EXCEPT ![p] = Append(@, BackoffDelay(attempt[p]))]
            /\ pc' = [pc EXCEPT ![p] = "ct_sleep"]
            /\ UNCHANGED result
       ELSE /\ Raise(p, e)
            /\ UNCHANGED sleeps

\* A retryable failure e of the current attempt: record it, then back off
\* and go on, or raise it when this was the last attempt.
RetryOrRaise(p, e) ==
    /\ last_error' = [last_error EXCEPT ![p] = e]
    /\ IF CanRetry(attempt[p])
       THEN /\ sleeps' = [sleeps EXCEPT ![p] = Append(@, BackoffDelay(attempt[p]))]
            /\ pc' = [pc EXCEPT ![p] = "ct_sleep"]
            /\ UNCHANGED result
       ELSE /\ Raise(p, e)
            /\ UNCHANGED sleeps

\* A failure that ends the invocation at once: it leaves the try block
\* (or matches `except ToolExecutionError: raise`) and reaches the caller.
Fail(p, e) ==
    /\ Raise(p, e)
    /\ UNCHANGED <<last_error, sleeps>>

\* return result.get("result"): the value goes to the caller of call_tool,
\* which is the task itself or the module function the task runs; Write
\* awaits call_tool without a return, so the task ends with None.
Succeed(p, v) ==
    /\ Return(p, IF stub[p].discards THEN PyNone ELSE v)
    /\ UNCHANGED <<last_error, sleeps>>

\* Faulty variant: a refused connection is raised at once.
OnConnectorErrorFail(p, e) == Fail(p, ConnectionErrorOf(e, base_url))

\* except aiohttp.ClientConnectorError
OnConnectorError(p, e) == RetryOrRaise(p, ConnectionErrorOf(e, base_url))

\* except aiohttp.ClientError
OnClientError(p, e) == RetryOrRaise(p, NetworkErrorOf(e))

\* Faulty variant: a timeout is raised at once.
OnTimeoutFail(p, e) == Fail(p, TimeoutErrorOf(name[p]))

\* except asyncio.TimeoutError
OnTimeout(p, e) == RetryOrRaise(p, TimeoutErrorOf(name[p]))

\* An exception raised inside the try block meets the except clauses in
\* their order; one that matches none propagates.
Handle(p, e) ==
    IF e.kind = "ClientConnectorError" THEN OnConnectorError(p, e)
    ELSE IF e.kind = "ClientError" THEN OnClientError(p, e)
    ELSE IF e.kind = "TimeoutError" THEN OnTimeout(p, e)
    ELSE Fail(p, Uncaught(e))

\* The first run of the coroutine: last_error = None, then the loop.
CallToolBegin(p) ==
    /\ pc[p] = "ct_start"
    /\ LoopNext(p, 0, NoError)

\* session.post(...) completes: the response head has arrived, or the
\* request raised and this attempt has no response.
CallToolPost(p, o) ==
    /\ pc[p] = "ct_post"
    /\ o \in transport
    /\ trace' = [trace EXCEPT ![p] = Append(@, Tag(o))]
    /\ IF o.kind = "response"
       THEN /\ resp' = [resp EXCEPT ![p] = o]
            /\ pc' = [pc EXCEPT ![p] =
                        IF IsServerError(o.status) \/ IsClientError(o.status)
                        THEN "ct_text" ELSE "ct_json"]
            /\ UNCHANGED <<last_error, sleeps, result>>
       ELSE /\ Handle(p, o)
            /\ resp' = [resp EXCEPT ![p] = NoResp]
    /\ UNCHANGED <<bridge, heap, env, opsLeft, op, name, kwargs, attempt,
                   session, requests>>

\* if resp.status >= 500: the attempt failed with a server error
OnServerStatus(p) == RetryOrRaise(p, ServerErrorOf(resp[p]))

\* if resp.status >= 400: raise NetworkError("Client error ..."), which no
\* except clause catches
OnClientStatus(p) == Fail(p, ClientErrorOf(resp[p]))

\* The read of the body raises e inside the try block: the except clauses
\* take it like an exception of the request itself.
ReadRaises(p, e) ==
    /\ e \in ReadFailures \cap transport
    /\ resp' = [resp EXCEPT ![p] = Unread(@, e)]
    /\ Handle(p, e)

\* await resp.text(), for a status of 400 or more: it completes and the
\* status decides, or it raises.
CallToolText(p) ==
    /\ pc[p] = "ct_text"
    /\ \/ /\ IF IsServerError(resp[p].status)
             THEN OnServerStatus(p)
             ELSE OnClientStatus(p)
          /\ UNCHANGED resp
       \/ \E e \in ReadFailures : ReadRaises(p, e)
    /\ UNCHANGED <<bridge, heap, env, opsLeft, op, name, kwargs, attempt,
                   session, requests, trace>>

\* Faulty variant: a tool failure is handled like a transport failure.
OnToolErrorRetry(p, body) ==
    RetryOrRaise(p, ToolExecutionError(name[p], ErrorMsg(body)))

\* raise ToolExecutionError(name, error_msg), caught by
\* `except ToolExecutionError: raise`
OnToolError(p, body) == Fail(p, ToolExecutionError(name[p], ErrorMsg(body)))

\* The parsed body of a response: the tool failed, or its result.
Deliver(p, body) ==
    IF ~Succeeded(body)
    THEN OnToolError(p, body)
    ELSE Succeed(p, ResultOf(body))

\* await resp.json(), for a status below 400: it gives the parsed body, or
\* raises on the content type, on the text, or while the body is received.
CallToolJson(p) ==
    /\ pc[p] = "ct_json"
    /\ \/ /\ IF resp[p].body.form = "dict"
             THEN Deliver(p, resp[p].body)
             ELSE IF resp[p].body.form = "notjson"
             THEN Handle(p, ContentTypeError)
             ELSE Handle(p, JSONDecodeError)
          /\ UNCHANGED resp
       \/ \E e \in ReadFailures : ReadRaises(p, e)
    /\ UNCHANGED <<bridge, heap, env, opsLeft, op, name, kwargs, attempt,
                   session, requests, trace>>

\* Faulty variant: the backoff wait never hands control back to the loop.
CallToolSleepHang(p) ==
    /\ pc[p] = "ct_sleep"
    /\ UNCHANGED vars

\* await asyncio.sleep(...) completes: continue with the next attempt.
CallToolSleep(p) ==
    /\ pc[p] = "ct_sleep"
    /\ LoopNext(p, attempt[p] + 1, last_error[p])

\* ------------------------------------------------------------ list_tools
ListTools(p) == Spawn(p, "list_tools", "", "", "lt_start")

\* session = await self._get_session(); session.get(.../tools/list)
ListToolsBegin(p) ==
    /\ pc[p] = "lt_start"
    /\ GetSession(p)
    /\ requests' = [requests EXCEPT ![p] = @ + 1]
    /\ pc' = [pc EXCEPT ![p] = "lt_get"]
    /\ UNCHANGED <<bridge, env, opsLeft, op, name, kwargs, attempt, last_error,
                   resp, result, sleeps, trace>>

\* A request of a discovery operation completes: no status check and no
\* handler, so a response of any status goes on to resp.json() and an
\* exception propagates.
DiscoveryGet(p, o, at) ==
    /\ o \in transport
    /\ trace' = [trace EXCEPT ![p] = Append(@, Tag(o))]
    /\ IF o.kind = "response"
       THEN /\ resp' = [resp EXCEPT ![p] = o]
            /\ pc' = [pc EXCEPT ![p] = at]
            /\ UNCHANGED result
       ELSE /\ Raise(p, Uncaught(o))
            /\ UNCHANGED resp
    /\ UNCHANGED <<bridge, heap, env, opsLeft, op, name, kwargs, attempt,
                   last_error, session, requests, sleeps>>

ListToolsGet(p, o) ==
    /\ pc[p] = "lt_get"
    /\ DiscoveryGet(p, o, "lt_json")

\* The read of the body raises e in list_tools or get_tool_schema, which
\* have no handler: the exception reaches the caller.
DiscoveryReadRaises(p, e) ==
    /\ e \in ReadFailures \cap transport
    /\ resp' = [resp EXCEPT ![p] = Unread(@, e)]
    /\ Raise(p, Uncaught(e))

\* Faulty variant: data["tools"], which has no value for a body without
\* the key.
ToolsOfStrict(body) == body.tools

\* data.get("tools", [])
ToolsOf(body) == IF body.tools = Absent THEN "[]" ELSE body.tools

\* data = await resp.json(); return data.get("tools", [])
ListToolsJson(p) ==
    /\ pc[p] = "lt_json"
    /\ \/ /\ IF resp[p].body.form = "dict"
             THEN Return(p, ToolsOf(resp[p].body))
             ELSE IF resp[p].body.form = "notjson"
             THEN Raise(p, Uncaught(ContentTypeError))
             ELSE Raise(p, Uncaught(JSONDecodeError))
          /\ UNCHANGED resp
       \/ \E e \in ReadFailures : DiscoveryReadRaises(p, e)
    /\ UNCHANGED <<bridge, heap, env, opsLeft, op, name, kwargs, attempt,
                   last_error, session, observed>>

\* ------------------------------------------------------------ get_tool_schema
GetToolSchema(p, n) ==
    /\ n \in ToolNames
    /\ Spawn(p, "get_tool_schema", n, "", "gs_start")

\* session = await self._get_session(); session.get(.../tools/schema, params)
GetToolSchemaBegin(p) ==
    /\ pc[p] = "gs_start"
    /\ GetSession(p)
    /\ requests' = [requests EXCEPT ![p] = @ + 1]
    /\ pc' = [pc EXCEPT ![p] = "gs_get"]
    /\ UNCHANGED <<bridge, env, opsLeft, op, name, kwargs, attempt, last_error,
                   resp, result, sleeps, trace>>

GetToolSchemaGet(p, o) ==
    /\ pc[p] = "gs_get"
    /\ DiscoveryGet(p, o, "gs_json")

\* return await resp.json(): the parsed body as it is
GetToolSchemaJson(p) ==
    /\ pc[p] = "gs_json"
    /\ \/ /\ IF resp[p].body.form = "dict"
             THEN Return(p, resp[p].body.text)
             ELSE IF resp[p].body.form = "notjson"
             THEN Raise(p, Uncaught(ContentTypeError))
             ELSE Raise(p, Uncaught(JSONDecodeError))
          /\ UNCHANGED resp
       \/ \E e \in ReadFailures : DiscoveryReadRaises(p, e)
    /\ UNCHANGED <<bridge, heap, env, opsLeft, op, name, kwargs, attempt,
                   last_error, session, observed>>

\* ------------------------------------------------------------ close
Close(p) == Spawn(p, "close", "", "", "cl_start")

\* Faulty variant: await self._session.close() without the test, which fails
\* on a client that never had a session.
CloseBeginNoGuard(p) ==
    /\ pc[p] = "cl_start"
    /\ IF _session # None
       THEN /\ sessions' = [sessions EXCEPT ![_session] = TRUE]
            /\ pc' = [pc EXCEPT ![p] = "cl_await"]
            /\ UNCHANGED <<_session, result>>
       ELSE /\ Raise(p, Uncaught(Outcome("AttributeError", 0, NoBody,
                                         "NoneType has no attribute close")))
            /\ UNCHANGED heap
    /\ UNCHANGED <<bridge, env, opsLeft, locals, observed>>

\* if self._session and not self._session.closed: await self._session.close()
\* ClientSession.close() marks the session closed before it first suspends.
CloseBegin(p) ==
    /\ pc[p] = "cl_start"
    /\ IF _session # None /\ ~sessions[_session]
       THEN /\ sessions' = [sessions EXCEPT ![_session] = TRUE]
            /\ pc' = [pc EXCEPT ![p] = "cl_await"]
            /\ UNCHANGED <<_session, result>>
       ELSE /\ Return(p, PyNone)
            /\ UNCHANGED heap
    /\ UNCHANGED <<bridge, env, opsLeft, locals, observed>>

\* await self._session.close() completes; close returns None.
CloseDone(p) ==
    /\ pc[p] = "cl_await"
    /\ Return(p, PyNone)
    /\ UNCHANGED <<bridge, heap, env, opsLeft, locals, observed>>

\* ------------------------------------------------------------ specification
\* No task has been created yet.
NoTask ==
    /\ pc = [p \in Tasks |-> "idle"]
    /\ op = [p \in Tasks |-> ""]
    /\ name = [p \in Tasks |-> ""]
    /\ kwargs = [p \in Tasks |-> ""]
    /\ attempt = [p \in Tasks |-> 0]
    /\ last_error = [p \in Tasks |-> NoError]
    /\ session = [p \in Tasks |-> None]
    /\ resp = [p \in Tasks |-> NoResp]
    /\ returned = [p \in Tasks |-> Unset]
    /\ raised = [p \in Tasks |-> NoError]
    /\ requests = [p \in Tasks |-> 0]
    /\ sleeps = [p \in Tasks |-> <<>>]
    /\ trace = [p \in Tasks |-> <<>>]

\* The module as it is after import: _bridge = None, and inject_tools has
\* not been called.
ModuleLoaded ==
    /\ _bridge = None
    /\ injected = NoTools
    /\ inject_args = NoCall
    /\ instances = 0
    /\ stub = [p \in Tasks |-> NoStub]
    /\ given = [p \in Tasks |-> NoGiven]
    /\ invoked = [p \in Tasks |-> <<>>]

\* self.base_url = base_url or os.environ.get("ASTER_BRIDGE_URL",
\* "http://localhost:8080"): `or` takes the right side for None and for the
\* empty string, and the right side is the variable's value when it is set.
BaseUrlOf(url) ==
    IF url \in {PyNone, ""}
    THEN (IF environ = Absent THEN DefaultUrl ELSE environ)
    ELSE url

\* AsterBridge.__init__ called without a base_url by the user of the client,
\* who does not go through inject_tools, in a process where ASTER_BRIDGE_URL
\* is not set; no task yet.
InitBridge ==
    /\ environ = Absent
    /\ base_url = BaseUrlOf(PyNone)
    /\ max_retries \in 0..MaxRetriesBound
    /\ retry_delay \in 1..MaxDelay
    /\ _session = None
    /\ sessions = <<>>
    /\ NoTask
    /\ ModuleLoaded
    /\ injectsLeft = 0

\* One caller that runs its operations one after the other, against a
\* remote end that may answer with anything and whose bodies may fail to
\* arrive; the client waits the shortest or the longest delay.
Init ==
    /\ InitBridge
    /\ transport = Outcomes \cup ReadFailures
    /\ retry_delay \in {1, MaxDelay}
    /\ callable = { <<"Read", "{path: a.txt}">>, <<"Bash", "{}">> }
    /\ opsLeft = [p \in Tasks |-> IF p = 1 THEN MaxOps ELSE 0]

Next ==
    \E p \in Tasks :
        \/ \E n \in ToolNames, kw \in ArgMaps : CallTool(p, n, kw)
        \/ CallToolBegin(p)
        \/ \E o \in Outcomes : CallToolPost(p, o)
        \/ CallToolText(p)
        \/ CallToolJson(p)
        \/ CallToolSleep(p)
        \/ ListTools(p)
        \/ ListToolsBegin(p)
        \/ \E o \in Outcomes : ListToolsGet(p, o)
        \/ ListToolsJson(p)
        \/ \E n \in ToolNames : GetToolSchema(p, n)
        \/ GetToolSchemaBegin(p)
        \/ \E o \in Outcomes : GetToolSchemaGet(p, o)
        \/ GetToolSchemaJson(p)
        \/ Close(p)
        \/ CloseBegin(p)
        \/ CloseDone(p)

Spec == Init /\ [][Next]_vars

\* What a task does once it has been created: every step but the caller's
\* choice to start an operation.
Run(p) ==
    \/ CallToolBegin(p)
    \/ \E o \in Outcomes : CallToolPost(p, o)
    \/ CallToolText(p)
    \/ CallToolJson(p)
    \/ CallToolSleep(p)
    \/ ListToolsBegin(p)
    \/ \E o \in Outcomes : ListToolsGet(p, o)
    \/ ListToolsJson(p)
    \/ GetToolSchemaBegin(p)
    \/ \E o \in Outcomes : GetToolSchemaGet(p, o)
    \/ GetToolSchemaJson(p)
    \/ CloseBegin(p)
    \/ CloseDone(p)

\* One caller that runs two operations, one after the other, with any
\* number of attempts and any answers (a body read may time out); the
\* length of the waits plays no part in whether they end.
FairInit ==
    /\ InitBridge
    /\ transport = Outcomes
    /\ retry_delay = 1
    /\ callable = { <<"Read", "{path: a.txt}">> }
    /\ opsLeft = [p \in Tasks |-> IF p = 1 THEN 2 ELSE 0]

\* The event loop runs every task that can go on, and every request, body
\* read, sleep and session close completes.
FairSpec == FairInit /\ [][Next]_vars /\ \A p \in Tasks : WF_vars(Run(p))

\* f[1] + ... + f[n]
RECURSIVE Total(_, _)
Total(f, n) == IF n = 0 THEN 0 ELSE f[n] + Total(f, n - 1)

\* Several tasks on the one client, interleaving at their awaits, against
\* a remote end that answers a request with a result, a server fault or a
\* refused connection.
ConcTransport ==
    { o \in Outcomes :
        \/ o.kind = "ClientConnectorError"
        \/ /\ o.kind = "response"
           /\ \/ o.status = 200 /\ o.body.text = "{success: true, result: r1}"
              \/ o.status = 503 /\ o.body.text = "<html>" }

ConcInit ==
    /\ InitBridge
    /\ max_retries = 2
    /\ retry_delay = 1
    /\ transport = ConcTransport
    /\ callable = { <<"Read", "{}">> }
    /\ opsLeft \in [Tasks -> 0..ConcOps]
    /\ Total(opsLeft, NumTasks) = ConcOps

ConcSpec == ConcInit /\ [][Next]_vars

\* ------------------------------------------------------------ cancellation
\* asyncio raises CancelledError inside a cancelled task at the await it is
\* suspended in.
CancelledError == Outcome("CancelledError", 0, NoBody, "")

\* Faulty variant: the cancelled invocation closes the client's session on
\* its way out.
CancelClosing(p) ==
    /\ op[p] = "call_tool"
    /\ pc[p] \in {"ct_post", "ct_text", "ct_json", "ct_sleep"}
    /\ Raise(p, Uncaught(CancelledError))
    /\ IF _session # None /\ ~sessions[_session]
       THEN /\ sessions' = [sessions EXCEPT ![_session] = TRUE]
            /\ UNCHANGED _session
       ELSE UNCHANGED heap
    /\ UNCHANGED <<bridge, env, opsLeft, locals, observed>>

\* The caller cancels the call_tool task of p while it is suspended in
\* session.post, resp.text(), resp.json() or asyncio.sleep. No except clause
\* of call_tool matches CancelledError, so it leaves the coroutine through
\* the `async with` exit, which releases the response and nothing else.
Cancel(p) ==
    /\ op[p] = "call_tool"
    /\ pc[p] \in {"ct_post", "ct_text", "ct_json", "ct_sleep"}
    /\ Raise(p, Uncaught(CancelledError))
    /\ UNCHANGED <<bridge, heap, env, opsLeft, locals, observed>>

CancelNext == Next \/ \E p \in Tasks : Cancel(p)

\* Two tasks on the one client that the caller may cancel: the first runs
\* MaxOps operations, one after the other, the second one operation.
CancelInit ==
    /\ InitBridge
    /\ max_retries = 2
    /\ retry_delay = 1
    /\ transport = ConcTransport
    /\ callable = { <<"Read", "{}">> }
    /\ opsLeft = [p \in Tasks |-> IF p = 1 THEN MaxOps ELSE IF p = 2 THEN 1 ELSE 0]

\* The event loop goes on running every task that was not cancelled.
CancelSpec ==
    CancelInit /\ [][CancelNext]_vars /\ \A p \in Tasks : WF_vars(Run(p))

\* ------------------------------------------------------------ module level
\* _init_bridge(base_url): AsterBridge(base_url) is constructed, with the
\* default max_retries and retry_delay, only when _bridge is None; otherwise
\* the client that is there is returned and base_url is not looked at.
InitBridgeGlobal(url) ==
    IF _bridge = None
    THEN /\ base_url' = BaseUrlOf(url)
         /\ max_retries' = DefaultMaxRetries
         /\ retry_delay' = DefaultRetryDelay
         /\ _session' = None
         /\ _bridge' = 1
         /\ instances' = instances + 1
         /\ UNCHANGED sessions
    ELSE UNCHANGED <<bridge, heap, _bridge, instances>>

\* _generate_tool_function(tool_name): tool_func closes over tool_name.
GenerateToolFunction(tool_name) ==
    [tool_name |-> tool_name, kind |-> "generated", discards |-> FALSE]

\* for tool_name in tools: injected[tool_name] = _generate_tool_function(tool_name)
Injected(tools) == [n \in Range(tools) |-> GenerateToolFunction(n)]

\* The host calls inject_tools(tools, base_url); it has no await.
InjectTools(tools, url) ==
    /\ injectsLeft > 0
    /\ injectsLeft' = injectsLeft - 1
    /\ InitBridgeGlobal(url)
    /\ injected' = Injected(tools)
    /\ inject_args' = [tools |-> tools, base_url |-> url]
    /\ UNCHANGED <<environ, transport, callable, stubs, opsLeft, pc, locals,
                   result, observed>>

\* A task is created for a function that forwards to call_tool: st is the
\* function, gv what the caller gave it; nothing has run yet.
Invoke(p, o, at, st, gv) ==
    /\ pc[p] \in {"idle", "done"}
    /\ opsLeft[p] > 0
    /\ opsLeft' = [opsLeft EXCEPT ![p] = @ - 1]
    /\ pc' = [pc EXCEPT ![p] = at]
    /\ op' = [op EXCEPT ![p] = o]
    /\ stub' = [stub EXCEPT ![p] = st]
    /\ given' = [given EXCEPT ![p] = gv]
    /\ invoked' = [invoked EXCEPT ![p] = <<>>]
    /\ name' = [name EXCEPT ![p] = ""]
    /\ kwargs' = [kwargs EXCEPT ![p] = ""]
    /\ attempt' = [attempt EXCEPT ![p] = 0]
    /\ last_error' = [last_error EXCEPT ![p] = NoError]
    /\ session' = [session EXCEPT ![p] = None]
    /\ resp' = [resp EXCEPT ![p] = NoResp]
    /\ returned' = [returned EXCEPT ![p] = Unset]
    /\ raised' = [raised EXCEPT ![p] = NoError]
    /\ requests' = [requests EXCEPT ![p] = 0]
    /\ sleeps' = [sleeps EXCEPT ![p] = <<>>]
    /\ trace' = [trace EXCEPT ![p] = <<>>]
    /\ UNCHANGED <<bridge, heap, transport, callable, module>>

\* The caller takes the function under key f out of the mapping and calls it
\* with keyword arguments: a task is created for tool_func(**kwargs).
ToolFunc(p, f, kw) ==
    /\ f \in DOMAIN injected
    /\ kw \in StubArgMaps
    /\ Invoke(p, "tool_func", "tf_start", injected[f], [key |-> f, kwargs |-> kw])

\* _bridge.call_tool on a module whose _bridge is None.
AttributeError ==
    Outcome("AttributeError", 0, NoBody, "NoneType has no attribute call_tool")

\* call_tool(self, name, **kwargs) called with a keyword argument that has
\* the name of one of its own parameters.
TypeError ==
    Outcome("TypeError", 0, NoBody, "call_tool() got multiple values for argument")

\* A keyword argument of the caller meets a parameter of call_tool.
Collides(kw) == Keys(kw) \cap {"self", "name"} # {}

\* call_tool(tool_name, **kw) starts on the client _bridge names.
Forward(p, tool_name, kw) ==
    /\ op' = [op EXCEPT ![p] = "call_tool"]
    /\ name' = [name EXCEPT ![p] = tool_name]
    /\ kwargs' = [kwargs EXCEPT ![p] = kw]
    /\ invoked' = [invoked EXCEPT ![p] = Append(@, <<tool_name, kw>>)]
    /\ pc' = [pc EXCEPT ![p] = "ct_start"]
    /\ UNCHANGED result

\* return await _bridge.call_tool(tool_name, **kwargs): the global is read
\* when the function runs (None has no call_tool), then the call is bound
\* (the keyword arguments must not name call_tool's own parameters), then
\* call_tool runs with the closed-over name and the keyword arguments as
\* they came; what it returns or raises is what tool_func returns or raises.
ToolFuncCall(p) ==
    /\ pc[p] = "tf_start"
    /\ IF _bridge = None
       THEN /\ Raise(p, Uncaught(AttributeError))
            /\ UNCHANGED <<op, name, kwargs, invoked>>
       ELSE IF Collides(given[p].kwargs)
       THEN /\ Raise(p, Uncaught(TypeError))
            /\ UNCHANGED <<op, name, kwargs, invoked>>
       ELSE Forward(p, stub[p].tool_name, given[p].kwargs)
    /\ UNCHANGED <<bridge, heap, transport, callable, module, stub, given,
                   opsLeft, attempt, last_error, session, resp, observed>>

\* A task is created for one of the functions the module itself defines,
\* which are there whatever inject_tools was called with, and before it is
\* called: params is the mapping the function passes on.
ModuleFunc(p, tool_name, params, discards) ==
    Invoke(p, "module_func", "mf_start",
           [tool_name |-> tool_name, kind |-> "module", discards |-> discards],
           [key |-> tool_name, kwargs |-> params])

\* v, or the default d of the parameter when the caller left it out.
Default(v, d) == IF v = Absent THEN d ELSE v

\* async def Read(path): _bridge.call_tool("Read", path=path)
Read(p, path) == ModuleFunc(p, "Read", "{path: " \o path \o "}", FALSE)

\* async def Write(path, content): the call is awaited and nothing returned
Write(p, path, content) ==
    ModuleFunc(p, "Write", "{path: " \o path \o ", content: " \o content \o "}",
               TRUE)

\* async def Glob(pattern, path="."): both are passed on
Glob(p, pattern, path) ==
    ModuleFunc(p, "Glob",
               "{pattern: " \o pattern \o ", path: " \o Default(path, ".") \o "}",
               FALSE)

\* async def Grep(pattern, path=".", glob=None): glob is passed on when it
\* is truthy
Grep(p, pattern, path, glob) ==
    ModuleFunc(p, "Grep",
               "{pattern: " \o pattern \o ", path: " \o Default(path, ".")
                 \o (IF Default(glob, PyNone) \in {PyNone, ""} THEN ""
                     ELSE ", glob: " \o glob)
                 \o "}",
               FALSE)

\* async def Bash(command, timeout=None): timeout is passed on when it is
\* not None, 0 included
Bash(p, command, timeout) ==
    ModuleFunc(p, "Bash",
               "{command: " \o command
                 \o (IF Default(timeout, PyNone) = PyNone THEN ""
                     ELSE ", timeout: " \o timeout)
                 \o "}",
               FALSE)

\* The body of a module function reaches _bridge.call_tool(...): the global
\* is read when the function runs, and the keyword arguments, whose names
\* the function itself chose, are passed to call_tool.
ModuleFuncCall(p) ==
    /\ pc[p] = "mf_start"
    /\ IF _bridge = None
       THEN /\ Raise(p, Uncaught(AttributeError))
            /\ UNCHANGED <<op, name, kwargs, invoked>>
       ELSE Forward(p, stub[p].tool_name, given[p].kwargs)
    /\ UNCHANGED <<bridge, heap, transport, callable, module, stub, given,
                   opsLeft, attempt, last_error, session, resp, observed>>

\* The host injects tools and the injected code calls them.
InjectNext ==
    \/ \E tools \in ToolLists, url \in BaseUrls : InjectTools(tools, url)
    \/ \E p \in Tasks :
        \/ \E f \in ToolNames, kw \in StubArgMaps : ToolFunc(p, f, kw)
        \/ ToolFuncCall(p)
        \/ Read(p, "a.txt")
        \/ Write(p, "a.txt", "x")
        \/ \E path \in Paths : Glob(p, "*.py", path)
        \/ \E path \in Paths, glob \in GlobFilters : Grep(p, "x", path, glob)
        \/ \E timeout \in Timeouts : Bash(p, "ls", timeout)
        \/ ModuleFuncCall(p)
        \/ CallToolBegin(p)
        \/ \E o \in Outcomes : CallToolPost(p, o)
        \/ CallToolText(p)
        \/ CallToolJson(p)
        \/ CallToolSleep(p)

\* The module has been imported and no client exists yet: the fields of
\* the client hold no value until _init_bridge constructs it, which reads
\* the environment then. One caller runs MaxOps functions, generated ones or
\* the module's own, one after the other.
InjectInit ==
    /\ environ \in Environs
    /\ base_url = Unset
    /\ max_retries = 0
    /\ retry_delay = 0
    /\ _session = None
    /\ sessions = <<>>
    /\ NoTask
    /\ ModuleLoaded
    /\ injectsLeft = MaxInjects
    /\ transport = ConcTransport
    /\ callable = {}
    /\ opsLeft = [p \in Tasks |-> IF p = 1 THEN MaxOps ELSE 0]

InjectSpec == InjectInit /\ [][InjectNext]_vars

\* ------------------------------------------------------------ claims
\* The call_tool invocation of task p has ended.
Finished(p) == op[p] = "call_tool" /\ pc[p] = "done"

LastTag(p) == trace[p][Len(trace[p])]

\* The latest request of task p was answered, by the response resp[p].
GotResponse(p) ==
    /\ Len(trace[p]) > 0
    /\ LastTag(p) \in {"2xx", "3xx", "4xx", "5xx"}

AllTags(p, tags) == \A i \in 1..Len(trace[p]) : trace[p][i] \in tags

\* C1: when an attempt of call_tool gets a 2xx response and receives its
\* body, which has success = true, call_tool returns the body's result field
\* as it is (None when the body has no such field), raises nothing, and
\* sends no request after that response.
C1_SuccessReturnsResult ==
    \A p \in Tasks :
        ( /\ op[p] = "call_tool"
          /\ GotResponse(p)
          /\ BodyRead(resp[p])
          /\ resp[p].status \in 200..299
          /\ resp[p].body.form = "dict"
          /\ resp[p].body.success = "true" )
        => /\ pc[p] \in {"ct_json", "done"}
           /\ requests[p] = Len(trace[p])
           /\ pc[p] = "done" =>
                /\ returned[p] = IF resp[p].body.result = Absent THEN PyNone
                                 ELSE resp[p].body.result
                /\ raised[p] = NoError

\* A call that failed once and then got success = true with result r2.
C1_Witness ==
    \E p \in Tasks :
        /\ Finished(p)
        /\ Len(trace[p]) = 2
        /\ BodyRead(resp[p])
        /\ resp[p].status = 200
        /\ resp[p].body.result = "r2"
        /\ returned[p] = "r2"

\* C2: a response body with success = false that was received and parsed,
\* at whichever attempt it arrives, makes call_tool raise ToolExecutionError with the tool name and
\* the service's error message ("Unknown error" when the body has none); no
\* request is sent and no backoff wait happens after it, so as the first
\* response it leaves exactly one request.
C2_ToolFailureNotRetried ==
    \A p \in Tasks :
        ( /\ op[p] = "call_tool"
          /\ GotResponse(p)
          /\ BodyRead(resp[p])
          /\ resp[p].status < 400
          /\ resp[p].body.form = "dict"
          /\ resp[p].body.success = "false" )
        => /\ pc[p] \in {"ct_json", "done"}
           /\ requests[p] = Len(trace[p])
           /\ Len(sleeps[p]) = Len(trace[p]) - 1
           /\ pc[p] = "done" =>
                /\ raised[p].type = "ToolExecutionError"
                /\ raised[p].tool = name[p]
                /\ raised[p].detail = IF resp[p].body.error = Absent
                                      THEN "Unknown error"
                                      ELSE resp[p].body.error
                /\ returned[p] = Unset

\* A tool failure that arrived at the second attempt, and one request was
\* all that followed the first failure.
C2_Witness ==
    \E p \in Tasks :
        /\ Finished(p)
        /\ name[p] = "Bash"
        /\ trace[p] = <<"5xx", "2xx">>
        /\ BodyRead(resp[p])
        /\ resp[p].body.success = "false"
        /\ raised[p].type = "ToolExecutionError"
        /\ raised[p].detail = "e1"
        /\ requests[p] = 2

\* C3: when every attempt is answered with a 5xx status, call_tool raises a
\* NetworkError after exactly max_retries requests, whether the bodies could
\* be received or not (it is the server error of the last response, with its
\* body, when that body was received); the waits are retry_delay * 2^k for
\* k = 0 .. max_retries-2, one between two attempts and none after the last.
C3_ServerErrorsExhaust ==
    \A p \in Tasks :
        (Finished(p) /\ AllTags(p, {"5xx"}))
        => /\ requests[p] = max_retries
           /\ raised[p].type = "NetworkError"
           /\ returned[p] = Unset
           /\ sleeps[p] = [k \in 1..(max_retries - 1) |-> retry_delay * (2 ^ (k - 1))]
           /\ (max_retries >= 1 /\ BodyRead(resp[p])) =>
                /\ raised[p].msg = "Server error"
                /\ raised[p].status = resp[p].status
                /\ raised[p].text = resp[p].body.text

\* Three attempts, all 503, with retry_delay = 2: waits of 2 and 4.
C3_Witness ==
    \E p \in Tasks :
        /\ Finished(p)
        /\ max_retries = 3
        /\ retry_delay = 2
        /\ trace[p] = <<"5xx", "5xx", "5xx">>
        /\ sleeps[p] = <<2, 4>>
        /\ requests[p] = 3
        /\ raised[p].msg = "Server error"

\* C4: a response with a 4xx status ends the invocation: it is the last
\* outcome of the invocation at whichever attempt it arrives, no request and
\* no backoff wait follows it (as the first response it leaves exactly one
\* request), and call_tool raises the client error made from it.  The
\* program breaks this when the body of the 4xx response cannot be received:
\* the failure of the read is caught like a network failure and retried.
C4_ClientErrorNotRetried ==
    \A p \in Tasks :
        \A i \in 1..Len(trace[p]) :
            (op[p] = "call_tool" /\ trace[p][i] = "4xx")
            => /\ i = Len(trace[p])
               /\ pc[p] \in {"ct_text", "done"}
               /\ requests[p] = i
               /\ Len(sleeps[p]) = i - 1
               /\ pc[p] = "done" =>
                    /\ raised[p].type = "NetworkError"
                    /\ raised[p].msg = "Client error"
                    /\ raised[p].status = resp[p].status
                    /\ raised[p].text = resp[p].body.text
                    /\ returned[p] = Unset

\* C5: when the first k attempts fail to connect (0 <= k <= max_retries-1)
\* and attempt k+1 gets a 2xx response and receives its body, which has
\* success = true, call_tool returns that response's result after k+1
\* requests; connection failures alone end the invocation only at attempt
\* max_retries.
C5_ConnectFailuresThenSuccess ==
    \A p \in Tasks :
        LET n == Len(trace[p]) IN
        ( /\ Finished(p)
          /\ n >= 1
          /\ \A i \in 1..(n - 1) : trace[p][i] = "ClientConnectorError" )
        => /\ trace[p][n] = "ClientConnectorError" => n = max_retries
           /\ ( /\ trace[p][n] = "2xx"
                /\ BodyRead(resp[p])
                /\ resp[p].body.form = "dict"
                /\ resp[p].body.success = "true" )
              => /\ returned[p] = IF resp[p].body.result = Absent THEN PyNone
                                  ELSE resp[p].body.result
                 /\ raised[p] = NoError
                 /\ requests[p] = n
                 /\ n <= max_retries

\* Two refused connections, then success at the third and last attempt.
C5_Witness ==
    \E p \in Tasks :
        /\ Finished(p)
        /\ max_retries = 3
        /\ trace[p] = <<"ClientConnectorError", "ClientConnectorError", "2xx">>
        /\ returned[p] = "r1"
        /\ requests[p] = 3

\* The latest attempt of task p ended in a failure that call_tool retries:
\* a 5xx status, an exception of the request, a failure of the read of the
\* body, or a body that is not JSON by its content type.
LastRetryable(p) ==
    \/ LastTag(p) \in {"5xx", "ClientConnectorError", "ClientError", "TimeoutError"}
    \/ GotResponse(p) /\ ~BodyRead(resp[p])
    \/ LastTag(p) \in {"2xx", "3xx"} /\ resp[p].body.form = "notjson"

\* The failure record of the latest attempt of task p.
LastFailure(p) ==
    IF GotResponse(p) /\ resp[p].detail = "ClientError"
    THEN Error("NetworkError", "Network error", 0, "",
               "Response payload is not completed", "", "")
    ELSE IF GotResponse(p) /\ resp[p].detail = "TimeoutError"
    THEN Error("NetworkError", "Tool timed out after 60 seconds", 0, "", "",
               name[p], "")
    ELSE IF LastTag(p) = "5xx"
    THEN Error("NetworkError", "Server error", resp[p].status, resp[p].body.text,
               "", "", "")
    ELSE IF LastTag(p) = "ClientConnectorError"
    THEN Error("NetworkError", "Connection error", 0, "", "Cannot connect to host",
               "", base_url)
    ELSE IF LastTag(p) = "ClientError"
    THEN Error("NetworkError", "Network error", 0, "", "Server disconnected", "", "")
    ELSE IF LastTag(p) = "TimeoutError"
    THEN Error("NetworkError", "Tool timed out after 60 seconds", 0, "", "",
               name[p], "")
    ELSE Error("NetworkError", "Network error", 0, "", "unexpected mimetype", "", "")

\* C6: when an invocation ends after an attempt that failed in a retryable
\* way (so every attempt did), all max_retries attempts were made and the
\* error raised is the failure record of that last attempt: its kind and
\* message, not an earlier attempt's and not the generic "Failed to call
\* tool" error.
C6_LastFailureSurfaced ==
    \A p \in Tasks :
        (Finished(p) /\ Len(trace[p]) >= 1 /\ LastRetryable(p))
        => /\ raised[p] = LastFailure(p)
           /\ raised[p].msg # "Failed to call tool after attempts"
           /\ returned[p] = Unset
           /\ Len(trace[p]) = max_retries

\* A server error, a timeout, then a refused connection: the last is raised.
C6_Witness ==
    \E p \in Tasks :
        /\ Finished(p)
        /\ trace[p] = <<"5xx", "TimeoutError", "ClientConnectorError">>
        /\ raised[p].msg = "Connection error"
        /\ last_error[p] = raised[p]

\* C7: a response whose status is not 2xx is a transport-level fault
\* whatever its body says: call_tool neither returns the body's result nor
\* raises ToolExecutionError from the body's fields.
C7_NonSuccessStatusIsFault ==
    \A p \in Tasks :
        ( /\ Finished(p)
          /\ GotResponse(p)
          /\ resp[p].status \notin 200..299 )
        => /\ returned[p] = Unset
           /\ raised[p].type # "ToolExecutionError"

\* C8: at most one open session exists at any time, and it is the one the
\* client holds, whatever the interleaving of the operations.
C8_AtMostOneLiveSession ==
    /\ Cardinality({ s \in 1..Len(sessions) : ~sessions[s] }) <= 1
    /\ \A s \in 1..Len(sessions) : ~sessions[s] => s = _session

\* A second session was created after a close, while a request sent on the
\* first one is still in flight.
C8_Witness ==
    \E p, q \in Tasks :
        /\ p # q
        /\ sessions = <<TRUE, FALSE>>
        /\ _session = 2
        /\ session[p] = 1 /\ pc[p] \in {"ct_post", "lt_get", "gs_get"}
        /\ session[q] = 2 /\ pc[q] \in {"ct_post", "lt_get", "gs_get"}

\* Task p acquires the session in this step.
Acquires(p) ==
    /\ pc[p] \in {"ct_start", "ct_sleep", "lt_start", "gs_start"}
    /\ pc'[p] \in {"ct_post", "lt_get", "gs_get"}

\* C9: an acquisition returns the session the last acquisition returned
\* when no close came in between (the client and the session stay as they
\* are), and otherwise, after a close or on first use, a new session object
\* that is open and differs from every earlier one.
C9_AcquireIdempotent ==
    [][ \A p \in Tasks :
          Acquires(p) =>
            IF _session # None /\ ~sessions[_session]
            THEN /\ session'[p] = _session
                 /\ _session' = _session
                 /\ sessions' = sessions
            ELSE /\ session'[p] = _session'
                 /\ _session' # _session
                 /\ _session' \notin 1..Len(sessions)
                 /\ Len(sessions') = Len(sessions) + 1
                 /\ _session' = Len(sessions')
                 /\ ~sessions'[_session']
                 /\ \A s \in 1..Len(sessions) : sessions'[s] = sessions[s] ]_vars

\* After a close the next attempt got a second session, and the attempt
\* after it the same one.
C9_Witness ==
    \E p \in Tasks :
        /\ sessions = <<TRUE, FALSE>>
        /\ _session = 2
        /\ op[p] = "call_tool"
        /\ pc[p] = "ct_post"
        /\ attempt[p] = 1
        /\ requests[p] = 2
        /\ session[p] = 2
        /\ \E q \in Tasks : q # p /\ op[q] = "call_tool" /\ session[q] = 2

\* C10: when every request, body read and backoff wait completes, every
\* call_tool invocation finishes, and when it has finished it has either
\* returned a value or raised a failure, never both and never neither.
C10_ResolvesOnce ==
    /\ [](\A p \in Tasks :
            Finished(p) => ((returned[p] # Unset) # (raised[p] # NoError)))
    /\ \A p \in Tasks :
         (op[p] = "call_tool" /\ pc[p] = "ct_start") ~> Finished(p)

\* An invocation that used all three attempts and then finished.
C10_Witness ==
    \E p \in Tasks :
        /\ Finished(p)
        /\ max_retries = 3
        /\ Len(trace[p]) = 3
        /\ Len(sleeps[p]) = 2
        /\ raised[p].msg = "Tool timed out after 60 seconds"

\* C13: close() releases the session when the client holds an open one, and
\* is a no-op otherwise: on a client that never had a session, or whose
\* session is closed already, it raises nothing, returns None and leaves
\* the client and every session as they are.
C13_CloseIdempotent ==
    /\ [](\A p \in Tasks :
            (op[p] = "close" /\ pc[p] = "done")
            => (raised[p] = NoError /\ returned[p] = PyNone))
    /\ [][ \A p \in Tasks :
            (pc[p] = "cl_start" /\ pc'[p] # "cl_start")
            => IF _session # None /\ ~sessions[_session]
               THEN /\ _session' = _session
                    /\ sessions' = [sessions EXCEPT ![_session] = TRUE]
               ELSE /\ _session' = _session
                    /\ sessions' = sessions
                    /\ bridge' = bridge
                    /\ pc'[p] = "done"
                    /\ raised'[p] = NoError
                    /\ returned'[p] = PyNone ]_vars

\* Two close() calls have ended on a client whose one session is closed: one
\* of them released it, the other found nothing to release.
C13_Witness ==
    \E p, q \in Tasks :
        /\ p # q
        /\ sessions = <<TRUE>>
        /\ op[p] = "close" /\ pc[p] = "done" /\ returned[p] = PyNone
        /\ op[q] = "close" /\ pc[q] = "done" /\ returned[q] = PyNone
        /\ opsLeft = [t \in Tasks |-> 0]

\* C14: list_tools sends exactly one request and never retries or waits,
\* whatever comes back (a failure of the request or of the read of the body
\* reaches the caller); from a 2xx body that was received and parsed it
\* returns the service's list of tool names, and the empty list when the
\* service reports none (an empty list, or no "tools" key at all), raising
\* nothing.
C14_ListToolsOnce ==
    \A p \in Tasks :
        op[p] = "list_tools"
        => /\ requests[p] <= 1
           /\ Len(trace[p]) <= requests[p]
           /\ sleeps[p] = <<>>
           /\ attempt[p] = 0
           /\ pc[p] = "done" => (requests[p] = 1 /\ Len(trace[p]) = 1)
           /\ ( /\ pc[p] = "done"
                /\ GotResponse(p)
                /\ BodyRead(resp[p])
                /\ resp[p].status \in 200..299
                /\ resp[p].body.form = "dict" )
              => /\ raised[p] = NoError
                 /\ returned[p] = IF resp[p].body.tools \in {Absent, "[]"}
                                  THEN "[]"
                                  ELSE resp[p].body.tools

\* A 200 response whose body has no "tools" key gave the empty list, after
\* one request.
C14_Witness ==
    \E p \in Tasks :
        /\ op[p] = "list_tools"
        /\ pc[p] = "done"
        /\ requests[p] = 1
        /\ resp[p].status = 200
        /\ BodyRead(resp[p])
        /\ resp[p].body.text = "{}"
        /\ returned[p] = "[]"

\* C15: for every configured max_retries and every sequence of outcomes the
\* fallback after the retry loop (the generic NetworkError "Failed to call
\* tool ... after ... attempts", raised when no failure was recorded) is
\* never reached: every invocation ends inside the loop, after a request.
C15_FallbackUnreachable ==
    \A p \in Tasks :
        Finished(p)
        => /\ requests[p] >= 1
           /\ raised[p].msg # "Failed to call tool after attempts"

\* C15, for a client that makes an attempt: with max_retries >= 1 no
\* invocation ever leaves the loop by running out of attempts (it ends in
\* the step that settles an attempt, never from the loop head), and none
\* raises the generic error; with max_retries = 0 the loop body never runs
\* and the generic error is what every invocation raises, after no request.
C15_FallbackOnlyWithoutAttempts ==
    /\ [][ \A p \in Tasks :
            (max_retries >= 1 /\ pc[p] \in {"ct_start", "ct_sleep"})
            => pc'[p] # "done" ]_vars
    /\ [](\A p \in Tasks :
            Finished(p)
            => IF max_retries >= 1
               THEN /\ requests[p] >= 1
                    /\ raised[p].msg # "Failed to call tool after attempts"
               ELSE /\ requests[p] = 0
                    /\ raised[p] = ExhaustedError(name[p], max_retries))

\* A client with one attempt: the timeout of that attempt is raised as the
\* attempt is settled, and the loop head is not visited again.
C15_Witness ==
    \E p \in Tasks :
        /\ Finished(p)
        /\ max_retries = 1
        /\ trace[p] = <<"TimeoutError">>
        /\ sleeps[p] = <<>>
        /\ raised[p] = TimeoutErrorOf(name[p])

\* C16: one call_tool invocation sends at most max_retries requests. When
\* an attempt is settled, another attempt follows exactly when its outcome
\* was retryable (a 5xx response, a refused connection, another transport
\* error, a timeout, whether of the request or of the read of the response
\* body) and fewer than max_retries attempts were made; the
\* wait after the attempt numbered k (from 0) is retry_delay * 2^k whatever
\* the kind of failure, and the wait is followed by the next request.
C16_RetryBudget ==
    /\ [](\A p \in Tasks :
            op[p] = "call_tool"
            => /\ requests[p] <= max_retries
               /\ Len(trace[p]) <= requests[p]
               /\ Len(sleeps[p]) <= Len(trace[p])
               /\ \A k \in 1..Len(sleeps[p]) :
                      sleeps[p][k] = retry_delay * (2 ^ (k - 1)))
    /\ [][ \A p \in Tasks :
            op[p] = "call_tool"
            => /\ ( /\ pc[p] \in {"ct_post", "ct_text", "ct_json"}
                    /\ pc'[p] \in {"ct_sleep", "done"} )
                  => /\ (pc'[p] = "ct_sleep")
                        <=> (LastRetryable(p)' /\ Len(trace'[p]) < max_retries)
                     /\ pc'[p] = "ct_sleep"
                        => /\ Len(sleeps'[p]) = Len(trace'[p])
                           /\ requests'[p] = requests[p]
               /\ (pc[p] = "ct_sleep" /\ pc'[p] # "ct_sleep")
                  => /\ pc'[p] = "ct_post"
                     /\ requests'[p] = requests[p] + 1 ]_vars

\* Three attempts that failed in three different retryable ways, with the
\* waits 2 and 4 between them.
C16_Witness ==
    \E p \in Tasks :
        /\ Finished(p)
        /\ max_retries = 3
        /\ retry_delay = 2
        /\ trace[p] = <<"TimeoutError", "ClientError", "ClientConnectorError">>
        /\ sleeps[p] = <<2, 4>>
        /\ requests[p] = 3

\* Some step of the run so far closed a session.
SomeClosed == \E s \in 1..Len(sessions) : sessions[s]

\* Task p holds a session it acquired for the attempt it is making.
Holding(p) ==
    pc[p] \in {"ct_post", "ct_text", "ct_json", "ct_sleep",
               "lt_get", "lt_json", "gs_get", "gs_json"}

\* C20: the session is created lazily and reused. A new client has no
\* session; in a run without close() the one session is created by the
\* first operation that needs it, and every later attempt of every
\* invocation (a retry after a 5xx, a refused connection, a transport error
\* or a timeout, and a call after an invocation that failed for good) uses
\* that same session; no outcome of a request closes or replaces it.
C20_LazySessionReuse ==
    /\ (\A p \in Tasks : pc[p] = "idle") => (_session = None /\ sessions = <<>>)
    /\ ~SomeClosed
       => /\ Len(sessions) <= 1
          /\ _session = (IF sessions = <<>> THEN None ELSE 1)
          /\ \A p \in Tasks :
               /\ session[p] \in {None, 1}
               /\ Holding(p) => (session[p] = 1 /\ _session = 1)
               /\ (op[p] # "close" /\ requests[p] >= 1) => sessions = <<FALSE>>

\* The second operation of a task, started after its first one had ended, is
\* at its third attempt after a 5xx and a timeout, on the first session.
C20_Witness ==
    \E p \in Tasks :
        /\ opsLeft[p] = 0
        /\ op[p] = "call_tool"
        /\ pc[p] = "ct_post"
        /\ trace[p] = <<"5xx", "TimeoutError">>
        /\ requests[p] = 3
        /\ session[p] = 1
        /\ sessions = <<FALSE>>

\* close() has completed, and the invocation of task p, which acquired the
\* session that close() closed, is still in flight in its backoff wait;
\* nothing else is running and no session is open.
InFlightAcrossClose(p) ==
    /\ op[p] = "call_tool"
    /\ pc[p] = "ct_sleep"
    /\ _session # None
    /\ session[p] = _session
    /\ sessions[_session]
    /\ OpenSessions = {}
    /\ \E q \in Tasks : op[q] = "close" /\ pc[q] = "done"
    /\ \A q \in Tasks \ {p} : pc[q] \in {"idle", "done"}

\* C19: once close() has completed the client holds no open session until
\* the caller starts a new operation; in particular an invocation that was
\* started before the close and is still in flight (waiting in backoff)
\* leaves no open session behind when it goes on after the close.
C19_NoSessionAfterClose ==
    [][ \A p \in Tasks :
          (InFlightAcrossClose(p) /\ opsLeft' = opsLeft)
          => OpenSessions' = {} ]_vars

\* C17: call_tool invocations that run concurrently on one client are
\* independent. Each counts its own attempts and keeps its own failure
\* record: what an invocation has sent, waited and recorded, and what it
\* ends with, follows from the outcomes of its own requests alone, so the
\* failures of another neither use up its attempts nor change its result
\* or error; and while one invocation waits in backoff, every other
\* operation in flight can take its next step.
C17_InvocationsIndependent ==
    \A p \in Tasks :
        op[p] = "call_tool"
        => /\ requests[p] <= max_retries
           /\ pc[p] = "ct_post"
              => /\ requests[p] = attempt[p] + 1
                 /\ Len(trace[p]) = attempt[p]
                 /\ Len(sleeps[p]) = attempt[p]
                 /\ attempt[p] > 0 => last_error[p] = LastFailure(p)
           /\ pc[p] = "ct_sleep"
              => /\ requests[p] = attempt[p] + 1
                 /\ Len(trace[p]) = attempt[p] + 1
                 /\ attempt[p] < max_retries - 1
                 /\ LastRetryable(p)
                 /\ last_error[p] = LastFailure(p)
                 /\ \A q \in Tasks \ {p} :
                        pc[q] \notin {"idle", "done"} => ENABLED Run(q)
           /\ (Finished(p) /\ Len(trace[p]) >= 1)
              => /\ requests[p] = Len(trace[p])
                 /\ IF LastRetryable(p)
                    THEN /\ Len(trace[p]) = max_retries
                         /\ raised[p] = LastFailure(p)
                         /\ returned[p] = Unset
                    ELSE /\ returned[p] = ResultOf(resp[p].body)
                         /\ raised[p] = NoError

\* Two invocations in flight at once, each with its own record: one waits
\* in backoff after a refused connection, the other has sent its second
\* request after a server error.
C17_Witness ==
    \E p, q \in Tasks :
        /\ op[p] = "call_tool" /\ pc[p] = "ct_sleep"
        /\ trace[p] = <<"ClientConnectorError">>
        /\ last_error[p].msg = "Connection error"
        /\ op[q] = "call_tool" /\ pc[q] = "ct_post"
        /\ trace[q] = <<"5xx">>
        /\ attempt[q] = 1
        /\ requests[q] = 2
        /\ last_error[q].msg = "Server error"

\* The call_tool invocation of task p has ended by cancellation.
Cancelled(p) == Finished(p) /\ raised[p].type = "CancelledError"

\* C18: cancelling a call_tool invocation while it awaits the request, reads
\* the response or waits in backoff leaves the session alone: in the step of
\* the cancellation the client's session reference and every session stay
\* as they are (an open session stays open) and no other task is touched;
\* the cancelled invocation has ended and sends no further request; and
\* every other invocation, in flight or started later, still finishes, with
\* the result or error its own outcomes give it.
C18_CancelLeavesSession ==
    /\ [][ \A p \in Tasks :
            (Cancelled(p)' /\ ~Cancelled(p))
            => /\ pc[p] \in {"ct_post", "ct_text", "ct_json", "ct_sleep"}
               /\ _session' = _session
               /\ sessions' = sessions
               /\ requests' = requests
               /\ \A q \in Tasks \ {p} :
                    /\ pc'[q] = pc[q]
                    /\ returned'[q] = returned[q]
                    /\ raised'[q] = raised[q]
                    /\ attempt'[q] = attempt[q]
                    /\ last_error'[q] = last_error[q] ]_vars
    /\ [][ \A p \in Tasks :
            (Cancelled(p) /\ opsLeft'[p] = opsLeft[p])
            => (Cancelled(p)' /\ requests'[p] = requests[p]) ]_vars
    /\ [](\A q \in Tasks :
            (Finished(q) /\ ~Cancelled(q) /\ Len(trace[q]) >= 1)
            => /\ requests[q] = Len(trace[q])
               /\ IF LastRetryable(q)
                  THEN /\ Len(trace[q]) = max_retries
                       /\ raised[q] = LastFailure(q)
                  ELSE /\ returned[q] = ResultOf(resp[q].body)
                       /\ raised[q] = NoError)
    /\ \A q \in Tasks :
         (op[q] = "call_tool" /\ pc[q] = "ct_start") ~> Finished(q)

\* One invocation was cancelled in its backoff wait after a server error;
\* the session is still the open one it used, and another invocation has
\* returned its result over that session.
C18_Witness ==
    \E p, q \in Tasks :
        /\ Cancelled(p)
        /\ trace[p] = <<"5xx">>
        /\ Len(sleeps[p]) = 1
        /\ requests[p] = 1
        /\ session[p] = 1
        /\ sessions = <<FALSE>>
        /\ _session = 1
        /\ Finished(q)
        /\ returned[q] = "r1"
        /\ session[q] = 1

\* C11: after every inject_tools call, however many came before, there is
\* exactly one process-wide client, it is the one the global _bridge names
\* (the one every tool function forwards to), and it is bound to the
\* endpoint passed to that call, or to the configured default (the
\* environment's ASTER_BRIDGE_URL, else http://localhost:8080) when the call
\* passed none.  The program breaks this from the second call on, which does
\* not look at its endpoint.
C11_OneBridgePerEndpoint ==
    inject_args # NoCall
    => /\ instances = 1
       /\ _bridge = 1
       /\ base_url = BaseUrlOf(inject_args.base_url)

\* C12: for every name in the list given to inject_tools the returned
\* mapping has a function under that name, closed over that name. A call of
\* the function makes exactly one call_tool invocation, with the name it was
\* looked up under and the keyword arguments as the caller gave them, and
\* ends as that invocation ends: with the result, or the failure, that the
\* outcomes of its attempts give call_tool.  The program breaks this for
\* keyword arguments called "name" or "self": the call fails before
\* call_tool is entered.
C12_StubForwardsOnce ==
    /\ DOMAIN injected = Range(inject_args.tools)
    /\ \A n \in Range(inject_args.tools) : injected[n].tool_name = n
    /\ \A p \in Tasks :
         stub[p].kind = "generated"
         => /\ stub[p].tool_name = given[p].key
            /\ IF pc[p] = "tf_start"
               THEN invoked[p] = <<>> /\ requests[p] = 0
               ELSE /\ invoked[p] = << <<given[p].key, given[p].kwargs>> >>
                    /\ op[p] = "call_tool"
                    /\ name[p] = given[p].key
                    /\ kwargs[p] = given[p].kwargs
            /\ (Finished(p) /\ Len(trace[p]) >= 1)
               => IF LastRetryable(p)
                  THEN /\ Len(trace[p]) = max_retries
                       /\ raised[p] = LastFailure(p)
                       /\ returned[p] = Unset
                  ELSE /\ returned[p] = ResultOf(resp[p].body)
                       /\ raised[p] = NoError

====
